---- MODULE Spec2Model ----
(***************************************************************************)
(* A model of pymesos/process.py: the Connection object (socket I/O, the   *)
(* HTTP header phase, the length-prefixed record framing) and the Process  *)
(* worker loop (_run) with its reconnect/backoff logic, the wakeup pipe    *)
(* and the controller operations change_master() and stop().               *)
(*                                                                         *)
(* Bytes are one-character strings, buffers are sequences of them.  Time   *)
(* is an integer clock; every call of time.time() reads it.                *)
(***************************************************************************)
EXTENDS Integers, Sequences, FiniteSets, TLC

\* ------------------------------------------------------------------ bounds

\* The clock stops advancing at MaxTime.
MaxTime == 8
\* Most calls the controller makes (change_master and stop together).
MaxCalls == 2
\* Most events the model records in the delivery log.
MaxEvents == 1
\* Most records of a body stream in the framing specification.
MaxRecords == 2

\* ------------------------------------------------------- program constants

CONNECT_TIMEOUT == 2
CONNECT_RETRY_INTERVAL == 2

\* The clock starts late enough for 0 + CONNECT_TIMEOUT to lie in the past, as
\* it does for the epoch seconds time.time() returns (line 241).
StartTime == CONNECT_TIMEOUT + 1

None == "None"
\* The value of a time that is not set (select's timeout None, no teardown).
NoTime == 0 - 1

\* ------------------------------------------------------------------- bytes

\* NL is the newline byte; QT stands for the double quote byte.
NL == "\n"
QT == "'"
DigitChars == <<"0", "1", "2", "3", "4", "5", "6", "7", "8", "9">>
Digits == {DigitChars[i] : i \in 1..10}
DigitVal(c) == (CHOOSE i \in 1..10 : DigitChars[i] = c) - 1

Min(a, b) == IF a < b THEN a ELSE b
Drop(s, k) == SubSeq(s, k + 1, Len(s))

\* int(b'123'): the decimal value of a run of digits.
RECURSIVE ToInt(_)
ToInt(ds) ==
    IF ds = <<>> THEN 0
    ELSE 10 * ToInt(SubSeq(ds, 1, Len(ds) - 1)) + DigitVal(ds[Len(ds)])

\* str(n) for n >= 0, as bytes.
RECURSIVE ToDigits(_)
ToDigits(n) ==
    IF n < 10 THEN <<DigitChars[n + 1]>>
    ELSE Append(ToDigits(n \div 10), DigitChars[(n % 10) + 1])

\* Number of leading digits of s from position i on.
RECURSIVE DigitRun(_, _)
DigitRun(s, i) ==
    IF i <= Len(s) /\ s[i] \in Digits THEN 1 + DigitRun(s, i + 1) ELSE 0

\* LENGTH_PATTERN.match(buf): the length of the match of \d+\n at the head of
\* the buffer, 0 when there is no match.
LengthMatch(buf) ==
    LET k == DigitRun(buf, 1)
    IN  IF k >= 1 /\ Len(buf) > k /\ buf[k + 1] = NL THEN k + 1 ELSE 0

\* -------------------------------------------------------------- json.loads

JFail == [t |-> "fail", n |-> 0, s |-> <<>>, kv |-> <<>>]
JNum(v) == [t |-> "num", n |-> v, s |-> <<>>, kv |-> <<>>]
JStr(v) == [t |-> "str", n |-> 0, s |-> v, kv |-> <<>>]
JObj(v) == [t |-> "obj", n |-> 0, s |-> <<>>, kv |-> v]

NoParse == [ok |-> FALSE, next |-> 0, val |-> JFail]

\* JSON whitespace: of the model's bytes only the newline is whitespace.
RECURSIVE SkipWs(_, _)
SkipWs(s, i) == IF i <= Len(s) /\ s[i] = NL THEN SkipWs(s, i + 1) ELSE i

\* A string literal opening at s[i] = QT: it closes at the next quote, and no
\* control character (the newline) may stand inside it.
RECURSIVE StringEnd(_, _)
StringEnd(s, j) ==
    IF j > Len(s) \/ s[j] = NL THEN 0
    ELSE IF s[j] = QT THEN j
    ELSE StringEnd(s, j + 1)

ParseString(s, i) ==
    IF i > Len(s) \/ s[i] # QT THEN NoParse
    ELSE LET j == StringEnd(s, i + 1)
         IN  IF j = 0 THEN NoParse
             ELSE [ok |-> TRUE, next |-> j + 1, val |-> JStr(SubSeq(s, i + 1, j - 1))]

ParseNumber(s, i) ==
    IF s[i] = "0" THEN [ok |-> TRUE, next |-> i + 1, val |-> JNum(0)]
    ELSE LET k == DigitRun(s, i)
         IN  [ok |-> TRUE, next |-> i + k, val |-> JNum(ToInt(SubSeq(s, i, i + k - 1)))]

\* One JSON value starting at s[i] (whitespace already skipped).  Over the
\* model's bytes a value is a number, a string, or an object of at most one
\* member (there is no comma, bracket, sign or keyword among the bytes).
RECURSIVE ParseValue(_, _)
ParseValue(s, i) ==
    IF i > Len(s) THEN NoParse
    ELSE IF s[i] \in Digits THEN ParseNumber(s, i)
    ELSE IF s[i] = QT THEN ParseString(s, i)
    ELSE IF s[i] = "{" THEN
        LET k == SkipWs(s, i + 1)
        IN  IF k <= Len(s) /\ s[k] = "}"
            THEN [ok |-> TRUE, next |-> k + 1, val |-> JObj(<<>>)]
            ELSE LET key == ParseString(s, k)
                     c   == SkipWs(s, key.next)
                 IN  IF ~key.ok \/ c > Len(s) \/ s[c] # ":" THEN NoParse
                     ELSE LET v == ParseValue(s, SkipWs(s, c + 1))
                              e == SkipWs(s, v.next)
                          IN  IF ~v.ok \/ e > Len(s) \/ s[e] # "}" THEN NoParse
                              ELSE [ok |-> TRUE, next |-> e + 1,
                                    val |-> JObj(<<[k |-> key.val.s, v |-> v.val]>>)]
    ELSE NoParse

\* json.loads(data.decode('utf-8')): the decoded value, JFail when it raises.
JsonLoads(data) ==
    LET r == ParseValue(data, SkipWs(data, 1))
    IN  IF r.ok /\ SkipWs(data, r.next) = Len(data) + 1 THEN r.val ELSE JFail

\* ---------------------------------------------------------------- Connection

\* What one call of Connection.read meets: the outcome of recv (lines 85-89,
\* 136-141) and, for received data, what the HTTP parser reports after
\* execute (lines 91-110, 131): parsed, headers complete, status code, chunked,
\* the Mesos-Stream-Id header, the body bytes recv_body returns, message
\* complete.  raiseAt is the handler's part: on_event raises on the raiseAt-th
\* event of this call (0: it never raises).
RecvInput(kind, parsed, headers, code, chunked, sid, body, complete, raiseAt) ==
    [kind |-> kind, parsed |-> parsed, headers |-> headers, code |-> code,
     chunked |-> chunked, sid |-> sid, body |-> body, complete |-> complete,
     raiseAt |-> raiseAt]

\* Connection.__init__ (lines 57-61) on a connected socket.  Of the request
\* the model keeps whether unsent bytes remain (1) or not (0), which is all
\* want_write (line 144) asks.
NewConnection(addr) ==
    [addr |-> addr, request |-> 1, stream_id |-> None, response |-> <<>>]

\* The local conn of _run when it is None (lines 205, 220, 255, 267, 277).
NoConn ==
    [addr |-> None, request |-> 0, stream_id |-> None, response |-> <<>>]

\* Lines 98-103: the status must be 200 and the response chunked.
HeadersOkAnyStatus(code, chunked) == chunked
HeadersOk(code, chunked) == code = 200 /\ chunked

\* Lines 119-123 slice one record's payload off the buffer; m is the length
\* of the matched prefix, length the number it announces.
PayloadShort(resp, m, length) == SubSeq(resp, m + 1, m + length - 1)
Payload(resp, m, length) == SubSeq(resp, m + 1, m + length)

\* The extraction loop, lines 112-129.  resp is self._response, n the number
\* of events already passed to on_event in this call.  status: "break" (no
\* prefix at the head), "fail" (the except clause returned False), "spin" (a
\* prefix matches but the payload is incomplete: the body of the loop changes
\* nothing and the loop has no other exit, so it repeats forever).
RECURSIVE ExtractLoop(_, _, _)
ExtractLoop(resp, events, raiseAt) ==
    LET m == LengthMatch(resp)
    IN  IF m = 0
        THEN [status |-> "break", response |-> resp, events |-> events, raised |-> FALSE]
        ELSE LET length == ToInt(SubSeq(resp, 1, m - 1))
             IN  IF Len(resp) >= m + length
                 THEN LET data  == Payload(resp, m, length)
                          rest  == Drop(resp, m + length)
                          event == JsonLoads(data)
                      IN  IF event = JFail
                          THEN [status |-> "fail", response |-> rest,
                                events |-> events, raised |-> FALSE]
                          ELSE IF raiseAt = Len(events) + 1
                          THEN [status |-> "fail", response |-> rest,
                                events |-> events, raised |-> TRUE]
                          ELSE ExtractLoop(rest, Append(events, event), raiseAt)
                 ELSE [status |-> "spin", response |-> resp, events |-> events,
                       raised |-> FALSE]

\* Connection.read, lines 83-141.  ret is "True", "False", or "spin" when the
\* call never returns; sid is the value written to the callback's stream_id
\* (line 108), None when it is not written; events are the values passed to
\* on_event that returned; raised tells that on_event raised.
ReadResult(ret, c, sid, events, raised) ==
    [ret |-> ret, conn |-> c, sid |-> sid, events |-> events, raised |-> raised]

ConnRead(c, inp) ==
    IF inp.kind = "eof" THEN ReadResult("False", c, None, <<>>, FALSE)
    ELSE IF inp.kind = "eagain" THEN ReadResult("True", c, None, <<>>, FALSE)
    ELSE IF inp.kind = "error" THEN ReadResult("False", c, None, <<>>, FALSE)
    ELSE IF ~inp.parsed THEN ReadResult("False", c, None, <<>>, FALSE)
    ELSE LET validate == c.stream_id = None /\ inp.headers
         IN  IF validate /\ ~HeadersOk(inp.code, inp.chunked)
             THEN ReadResult("False", c, None, <<>>, FALSE)
             ELSE LET c1  == IF validate THEN [c EXCEPT !.stream_id = inp.sid] ELSE c
                      sid == IF validate THEN inp.sid ELSE None
                  IN  IF inp.body # <<>>
                      THEN LET x  == ExtractLoop(c1.response \o inp.body, <<>>, inp.raiseAt)
                               c2 == [c1 EXCEPT !.response = x.response]
                           IN  IF x.status = "spin"
                               THEN ReadResult("spin", c2, sid, x.events, FALSE)
                               ELSE IF x.status = "fail"
                               THEN ReadResult("False", c2, sid, x.events, x.raised)
                               ELSE IF inp.complete
                               THEN ReadResult("False", c2, sid, x.events, FALSE)
                               ELSE ReadResult("True", c2, sid, x.events, FALSE)
                      ELSE IF inp.complete
                      THEN ReadResult("False", c1, sid, <<>>, FALSE)
                      ELSE ReadResult("True", c1, sid, <<>>, FALSE)

\* --------------------------------------------------------------------- state

VARIABLES
    now,                    \* the clock time.time() reads
    master,                 \* Process._master, the active endpoint
    new_master,             \* Process._new_master, the desired endpoint
    stop,                   \* Process._stop
    stream_id,              \* Process._stream_id
    wakeup_fds,             \* Process._wakeup_fds: "open", or None once closed
    pipe,                   \* 1 when bytes wait in the wakeup pipe, else 0
    exc_info,               \* the module's _exc_info
    ctl,                    \* the controller: "idle", or "notify" before _notify
    pc,                     \* the worker's position in _run
    conn,                   \* _run's conn: NoConn or a Connection
    next_connect_deadline,  \* _run's next_connect_deadline
    readable, writeable,    \* what select returned (line 246)
    wake_at,                \* when select's timeout expires, NoTime for None
    delivered,              \* the events on_event has received, in order
    peer,                   \* body bytes the peer has still to send
    whole,                  \* the peer's whole body stream
    reads,                  \* calls of Connection.read on that stream
    fault,                  \* what ended the connection in the worker's last step
    last_teardown,          \* when conn was last torn down, NoTime once replaced
    superseded,             \* endpoints overwritten before the worker saw them
    unseen,                 \* new_master was written since line 217 last ran
    stop_connecting,        \* stop() was called on a connection without headers
    began,                  \* when the attempt without headers yet began
    calls                   \* calls of change_master and stop so far

vars == <<now, master, new_master, stop, stream_id, wakeup_fds, pipe, exc_info,
          ctl, pc, conn, next_connect_deadline, readable, writeable, wake_at,
          delivered, peer, whole, reads, fault, last_teardown, superseded,
          unseen, stop_connecting, began, calls>>

Endpoints == {"E0", "E1", "E2"}
StreamIds == {"S1"}

\* ------------------------------------------------------------ the worker

\* Every teardown of _run (lines 219-224, 254-259, 266-271, 276-281): after
\* conn.close() and conn = None the stream id is cleared and the next attempt
\* is put off by the retry interval.  sid is the stream id before, t the time.
TeardownKeepsStreamId(sid, t) ==
    [stream_id |-> sid, deadline |-> t + CONNECT_RETRY_INTERVAL]
Teardown(sid, t) ==
    [stream_id |-> None, deadline |-> t + CONNECT_RETRY_INTERVAL]

\* Lines 228-229: a connection is created when there is none, an endpoint is
\* set and the deadline has passed.
CanConnectNoDeadline(c, m, t, deadline) == c = NoConn /\ m # None
CanConnect(c, m, t, deadline) == c = NoConn /\ m # None /\ t > deadline

\* Lines 238-244: the time at which select's timeout expires, NoTime for a
\* timeout of None.
SelectWakeAt(t, deadline) ==
    IF deadline > t THEN t + (deadline - t)
    ELSE IF deadline + CONNECT_TIMEOUT > t THEN t + (deadline + CONNECT_TIMEOUT - t)
    ELSE NoTime

\* Lines 273-274: the connect timeout has expired.
ConnectTimedOut(c, t, deadline) ==
    c # NoConn /\ deadline # 0 /\ t > deadline + CONNECT_TIMEOUT

\* The worker holds the lock between line 213 and line 230.
LockFree == pc # "connect"

\* Lines 217-218: the desired endpoint differs from the active one and a
\* connection is live, which is then closed before line 226 adopts the endpoint.
RedirectedNever(c, m, nm) == FALSE
RedirectedWithoutConn(c, m, nm) == nm # m
Redirected(c, m, nm) == nm # m /\ c # NoConn

Init ==
    /\ now = StartTime
    /\ master = None
    /\ new_master \in {None, "E0"}
    /\ stop = FALSE
    /\ stream_id = None
    /\ wakeup_fds = "open" /\ pipe = 0
    /\ exc_info = None
    /\ ctl = "idle"
    /\ pc = "start"
    /\ conn = NoConn
    /\ next_connect_deadline = 0
    /\ readable = {} /\ writeable = {}
    /\ wake_at = NoTime
    /\ delivered = <<>>
    /\ peer = <<>> /\ whole = <<>> /\ reads = 0
    /\ fault = "none"
    /\ last_teardown = NoTime
    /\ superseded = {} /\ unseen = FALSE
    /\ stop_connecting = FALSE
    /\ began = NoTime /\ calls = 0

framing == <<peer, whole, reads>>
shared == <<master, new_master, stop, stream_id, wakeup_fds, pipe, exc_info>>
history == <<last_teardown, superseded, unseen, stop_connecting, began, calls>>

\* time.time() advances.  Only the loop of _run reads the clock (lines 223, 229,
\* 238, 258, 270, 274, 280), so it is not advanced once the worker has left the
\* loop or will never leave Connection.read.
Tick ==
    /\ now < MaxTime
    /\ pc \in {"start", "top", "connect", "blocked", "dispatch"}
    /\ now' = now + 1
    /\ UNCHANGED <<shared, ctl, pc, conn, next_connect_deadline, readable,
                   writeable, wake_at, delivered, framing, fault, history>>

\* change_master, lines 190-191; _notify follows as its own step.  An endpoint
\* the worker has not seen at line 217 and that differs from the active one is
\* superseded when the next call overwrites it.
ChangeMasterFirstWins(m) ==
    /\ ctl = "idle" /\ LockFree
    /\ calls < MaxCalls
    /\ calls' = calls + 1
    /\ new_master' = IF unseen THEN new_master ELSE m
    /\ ctl' = "notify"
    /\ superseded' =
         (superseded \cup (IF unseen /\ new_master # master THEN {new_master} ELSE {}))
             \ {m}
    /\ unseen' = TRUE
    /\ UNCHANGED <<now, master, stop, stream_id, wakeup_fds, pipe, exc_info, pc,
                   conn, next_connect_deadline, readable, writeable, wake_at,
                   delivered, framing, fault, last_teardown, stop_connecting,
                   began>>
ChangeMaster(m) ==
    /\ ctl = "idle" /\ LockFree
    /\ calls < MaxCalls
    /\ calls' = calls + 1
    /\ new_master' = m
    /\ ctl' = "notify"
    /\ superseded' =
         (superseded \cup (IF unseen /\ new_master # master THEN {new_master} ELSE {}))
             \ {m}
    /\ unseen' = TRUE
    /\ UNCHANGED <<now, master, stop, stream_id, wakeup_fds, pipe, exc_info, pc,
                   conn, next_connect_deadline, readable, writeable, wake_at,
                   delivered, framing, fault, last_teardown, stop_connecting,
                   began>>

\* stop, lines 302-303; _notify follows as its own step.
Stop ==
    /\ ctl = "idle" /\ LockFree
    /\ calls < MaxCalls
    /\ calls' = calls + 1
    /\ stop' = TRUE
    /\ ctl' = "notify"
    /\ stop_connecting' =
         (stop_connecting \/ (~stop /\ conn # NoConn /\ conn.stream_id = None))
    /\ UNCHANGED <<now, master, new_master, stream_id, wakeup_fds, pipe,
                   exc_info, pc, conn, next_connect_deadline, readable,
                   writeable, wake_at, delivered, framing, fault, last_teardown,
                   superseded, unseen, began>>

\* _notify, lines 196-198.  One os.read (line 263) takes the bytes of all the
\* notifications written before it, so the pipe is modelled as holding bytes
\* (1) or not (0).  NotifyWrites is the test of line 197, made under the lock.
NotifyWritesAlways(fds) == TRUE
NotifyWrites(fds) == fds # None
Notify ==
    /\ ctl = "notify" /\ LockFree
    /\ pipe' = IF NotifyWrites(wakeup_fds) THEN 1 ELSE pipe
    /\ ctl' = "idle"
    /\ UNCHANGED <<now, master, new_master, stop, stream_id, wakeup_fds,
                   exc_info, pc, conn, next_connect_deadline, readable,
                   writeable, wake_at, delivered, framing, fault, history>>

\* _run, lines 201-209.
WStart ==
    /\ pc = "start"
    /\ stream_id' = None
    /\ next_connect_deadline' = 0
    /\ pc' = "top"
    /\ UNCHANGED <<now, master, new_master, stop, wakeup_fds, pipe, exc_info,
                   ctl, conn, readable, writeable, wake_at, delivered, framing,
                   fault, history>>

\* Lines 211-226, under the lock: the stop flag, then the desired endpoint.
WTop ==
    /\ pc = "top"
    /\ fault' = IF ~stop /\ Redirected(conn, master, new_master)
                THEN "redirect" ELSE "none"
    /\ IF stop
       THEN /\ pc' = "finally"
            /\ UNCHANGED <<master, stream_id, conn, next_connect_deadline,
                           last_teardown, unseen, began>>
       ELSE /\ pc' = "connect"
            /\ unseen' = FALSE
            /\ master' = new_master
            /\ IF Redirected(conn, master, new_master)
               THEN LET td == Teardown(stream_id, now)
                    IN  /\ conn' = NoConn
                        /\ stream_id' = td.stream_id
                        /\ next_connect_deadline' = td.deadline
                        /\ last_teardown' = now
                        /\ began' = NoTime
               ELSE UNCHANGED <<stream_id, conn, next_connect_deadline,
                                last_teardown, began>>
    /\ UNCHANGED <<now, new_master, stop, wakeup_fds, pipe, exc_info, ctl,
                   readable, writeable, wake_at, delivered, framing, superseded,
                   stop_connecting, calls>>

\* Lines 228-244.  Under the lock, Connection.__init__ connects a blocking
\* socket (lines 54-56); socket.connect raises socket.error when the endpoint
\* refuses or cannot be reached, and nothing in _run catches it before line
\* 283.  Then the descriptor sets and the timeout of select are computed.
WConnect ==
    /\ pc = "connect"
    /\ IF CanConnect(conn, master, now, next_connect_deadline)
       THEN \E dialled \in BOOLEAN :
              IF dialled
              THEN /\ conn' = NewConnection(master)
                   /\ last_teardown' = NoTime
                   /\ began' = now
                   /\ fault' = "none"
                   /\ wake_at' = SelectWakeAt(now, next_connect_deadline)
                   /\ pc' = "blocked"
              ELSE /\ fault' = "socket.error"
                   /\ pc' = "except"
                   /\ UNCHANGED <<conn, last_teardown, began, wake_at>>
       ELSE /\ pc' = "blocked"
            /\ fault' = "none"
            /\ wake_at' = SelectWakeAt(now, next_connect_deadline)
            /\ UNCHANGED <<conn, last_teardown, began>>
    /\ UNCHANGED <<now, shared, ctl, next_connect_deadline, readable, writeable,
                   delivered, framing, superseded, unseen, stop_connecting,
                   calls>>

\* Lines 246-248: select returns the ready descriptors, or nothing when its
\* timeout has expired.  The wakeup descriptor is ready when the pipe holds
\* bytes; the peer decides whether the socket is.  The timeout is not used
\* after the call.
WSelectReturn ==
    /\ pc = "blocked"
    /\ \E r \in SUBSET (IF conn # NoConn THEN {"conn"} ELSE {}),
          w \in SUBSET (IF conn # NoConn /\ conn.request > 0 THEN {"conn"} ELSE {}) :
         /\ readable' = r \cup (IF pipe > 0 THEN {"wakeup"} ELSE {})
         /\ writeable' = w
         /\ \/ readable' \cup writeable' # {}
            \/ wake_at # NoTime /\ now >= wake_at
    /\ wake_at' = NoTime
    /\ pc' = "dispatch"
    /\ fault' = "none"
    /\ UNCHANGED <<now, shared, ctl, conn, next_connect_deadline, delivered,
                   framing, history>>

\* Connection.write, lines 71-81, when send does not fail: it took the whole
\* rest of the request (sent = 1), or a part of it or, when it would block
\* (line 78), nothing (sent = 0).
ConnWrite(c, sent) == [c EXCEPT !.request = c.request - sent]

\* The worker's own variables as one record, for the three parts of the
\* dispatch that follow each other in one iteration.
Locals(c, sid, deadline, torn) ==
    [conn |-> c, stream_id |-> sid, deadline |-> deadline, torn |-> torn]

\* Lines 254-259, 266-271, 276-281: conn.close(), conn = None and what
\* Teardown does.
TornDown(l, t) ==
    LET td == Teardown(l.stream_id, t)
    IN  Locals(NoConn, td.stream_id, td.deadline, TRUE)

\* Lines 250-259: the writable dispatch.  send fails (line 81), or would block,
\* or takes some bytes.
AfterWrite(l, t, failed, sent) ==
    IF "conn" \notin writeable THEN l
    ELSE IF failed THEN TornDown(l, t)
    ELSE [l EXCEPT !.conn = ConnWrite(l.conn, sent), !.deadline = 0]

\* Lines 273-281: the connect timeout.
AfterTimeout(l, t) ==
    IF ConnectTimedOut(l.conn, t, l.deadline) THEN TornDown(l, t) ELSE l

\* Body fragments a read may receive: one record (an event), a record whose
\* payload is no JSON, a prefix with part of its payload.
FragEvent == <<"1", NL, "1">>
FragBadJson == <<"1", NL, "a">>
FragShort == <<"2", NL, "1">>
Frags == {<<>>, FragEvent, FragBadJson, FragShort}

\* What the body part of a read may be: the bytes recv_body returns, whether
\* the message is complete, and the event on which on_event raises.
BodyCases ==
    {<<body, FALSE, 0>> : body \in Frags}
    \cup {<<<<>>, TRUE, 0>>, <<FragEvent, TRUE, 0>>, <<FragEvent, FALSE, 1>>}

\* What the header part of a read that completes the headers may be: the status
\* code and whether the response is chunked.
HeaderCases == {<<200, TRUE>>, <<404, TRUE>>, <<200, FALSE>>}

\* What a call of Connection.read on c may meet.  Before the headers are
\* complete there is no body; once they were validated the parser keeps
\* reporting them complete.
RecvInputs(c) ==
    {RecvInput(k, FALSE, FALSE, 0, FALSE, "S1", <<>>, FALSE, 0) :
        k \in {"eof", "eagain", "error", "data"}}
    \cup (IF c.stream_id = None
          THEN {RecvInput("data", TRUE, FALSE, 0, FALSE, "S1", <<>>, FALSE, 0)}
          ELSE {})
    \cup {RecvInput("data", TRUE, TRUE, h[1], h[2], sid, b[1], b[2], b[3]) :
            h \in (IF c.stream_id = None THEN HeaderCases ELSE {<<200, TRUE>>}),
            sid \in (IF c.stream_id = None THEN StreamIds ELSE {c.stream_id}),
            b \in BodyCases}

\* A read of c completes the headers of a response that is not a chunked 200.
Rejected(c, inp) ==
    /\ inp.kind = "data" /\ inp.parsed /\ inp.headers /\ c.stream_id = None
    /\ inp.code # 200 \/ ~inp.chunked

\* Lines 250-281: what the worker does with the result of select.  After the
\* writable dispatch (AfterWrite) comes the readable one, lines 261-271: the
\* wakeup pipe is drained; the connection reads, and is torn down when read
\* returns False.  When the writable dispatch has torn the connection down,
\* conn.fileno() at line 264 raises AttributeError on None.  Which descriptor
\* comes first in the list is not determined, so a step that leaves the loop may
\* or may not have drained the pipe.  The connect timeout (AfterTimeout) ends
\* the iteration.
WDispatch ==
    /\ pc = "dispatch"
    /\ \E failed \in BOOLEAN, sent \in 0..conn.request :
         /\ failed => sent = 0
         /\ "conn" \notin writeable => ~failed /\ sent = 0
         /\ \E w \in {AfterWrite(Locals(conn, stream_id, next_connect_deadline, FALSE),
                                 now, failed, sent)} :
              LET drained == IF "wakeup" \in readable THEN 0 ELSE pipe
              IN  IF "conn" \notin readable
                  THEN \E z \in {AfterTimeout(w, now)} :
                         /\ conn' = z.conn
                         /\ stream_id' = z.stream_id
                         /\ next_connect_deadline' = z.deadline
                         /\ last_teardown' = IF z.torn THEN now ELSE last_teardown
                         /\ began' = IF z.torn THEN NoTime ELSE began
                         /\ pipe' = drained
                         /\ pc' = "top"
                         /\ fault' = "none"
                         /\ UNCHANGED delivered
                  ELSE IF w.conn = NoConn
                  THEN /\ conn' = w.conn
                       /\ stream_id' = w.stream_id
                       /\ next_connect_deadline' = w.deadline
                       /\ last_teardown' = now
                       /\ began' = NoTime
                       /\ pipe' \in {drained, pipe}
                       /\ pc' = "except"
                       /\ fault' = "AttributeError"
                       /\ UNCHANGED delivered
                  ELSE \E inp \in RecvInputs(w.conn) :
                       \E r \in {ConnRead(w.conn, inp)} :
                         LET sid == IF r.sid # None THEN r.sid ELSE w.stream_id
                             x   == IF r.ret = "False"
                                    THEN TornDown([w EXCEPT !.stream_id = sid], now)
                                    ELSE [w EXCEPT !.conn = r.conn, !.stream_id = sid]
                         IN  /\ Len(delivered) + Len(r.events) <= MaxEvents
                             /\ \E z \in {IF r.ret = "spin" THEN x ELSE AfterTimeout(x, now)} :
                                  /\ delivered' = delivered \o r.events
                                  /\ conn' = z.conn
                                  /\ stream_id' = z.stream_id
                                  /\ next_connect_deadline' = z.deadline
                                  /\ last_teardown' = IF z.torn THEN now ELSE last_teardown
                                  /\ began' = IF z.torn \/ r.sid # None THEN NoTime ELSE began
                                  /\ pipe' \in IF r.ret = "spin" THEN {drained, pipe} ELSE {drained}
                                  /\ pc' = IF r.ret = "spin" THEN "spin" ELSE "top"
                                  /\ fault' = IF r.raised THEN "handler"
                                               ELSE IF Rejected(w.conn, inp)
                                               THEN (IF inp.body # <<>> THEN "rejected_body"
                                                     ELSE "rejected")
                                               ELSE "none"
    /\ readable' = {}
    /\ writeable' = {}
    /\ UNCHANGED <<now, master, new_master, stop, wakeup_fds, exc_info, ctl,
                   wake_at, framing, superseded, unseen, stop_connecting, calls>>

\* Lines 283-287: an exception that left the loop sets the stop flag and is
\* recorded by _raise (lines 21-27) for the main thread.
WExcept ==
    /\ pc = "except"
    /\ stop' = TRUE
    /\ exc_info' = fault
    /\ pc' = "finally"
    /\ fault' = "none"
    /\ UNCHANGED <<now, master, new_master, stream_id, wakeup_fds, pipe, ctl,
                   conn, next_connect_deadline, readable, writeable, wake_at,
                   delivered, framing, history>>

\* Lines 289-294: both ends of the wakeup pipe are closed.
WFinally ==
    /\ pc = "finally"
    /\ wakeup_fds' = None
    /\ pipe' = 0
    /\ pc' = "exited"
    /\ UNCHANGED <<now, master, new_master, stop, stream_id, exc_info, ctl,
                   conn, next_connect_deadline, readable, writeable, wake_at,
                   delivered, framing, fault, history>>

Next ==
    \/ Tick
    \/ \E m \in Endpoints \cup {None} : ChangeMaster(m)
    \/ Stop
    \/ Notify
    \/ WStart
    \/ WTop
    \/ WConnect
    \/ WSelectReturn
    \/ WDispatch
    \/ WExcept
    \/ WFinally

Spec == Init /\ [][Next]_vars

\* The same behaviours under fair scheduling: the worker thread and a
\* controller inside _notify keep running, and the clock keeps advancing.
Fairness ==
    /\ WF_vars(Tick)
    /\ WF_vars(Notify)
    /\ WF_vars(WStart)
    /\ WF_vars(WTop)
    /\ WF_vars(WConnect)
    /\ WF_vars(WSelectReturn)
    /\ WF_vars(WDispatch)
    /\ WF_vars(WExcept)
    /\ WF_vars(WFinally)

SpecFair == Init /\ [][Next]_vars /\ Fairness

\* ------------------------------------------------ the framing specification

\* Payloads of the records the peer sends: JSON values of 1, 2, 7, 8 and 11
\* bytes.
PayloadA == <<"{", QT, "a", QT, ":", "1", "}">>
PayloadB == <<"{", QT, "b", QT, ":", "2", "2", "}">>
PayloadC == <<"{", QT, "a", "b", QT, ":", QT, "b", "a", QT, "}">>
Payloads == {PayloadA, PayloadB, PayloadC, <<"1">>, <<"{", "}">>}

\* One record: <decimal length>\n<payload>.
Record(p) == ToDigits(Len(p)) \o <<NL>> \o p

\* The valid body streams of at most n records.
RECURSIVE ValidStreams(_)
ValidStreams(n) ==
    IF n = 0 THEN {<<>>}
    ELSE LET shorter == ValidStreams(n - 1)
         IN  shorter \cup {Record(p) \o st : p \in Payloads, st \in shorter}

\* 5\n{"a":1}7\n{"b":22}: prefixes that are two bytes short of the payloads.
LiteralStream == <<"5", NL>> \o PayloadA \o <<"7", NL>> \o PayloadB
\* 7\n{"a":1}8\n{"b":22}: the same payloads, with prefixes that count them.
CountedStream == Record(PayloadA) \o Record(PayloadB)

EventA == JObj(<<[k |-> <<"a">>, v |-> JNum(1)]>>)
EventB == JObj(<<[k |-> <<"b">>, v |-> JNum(22)]>>)

\* A read that receives the body bytes b on validated headers.
BodyInput(b) == RecvInput("data", TRUE, TRUE, 200, TRUE, "S1", b, FALSE, 0)

\* A connection whose headers were validated (lines 96-108) and whose request
\* is sent: the state in which the body is decoded.
ConnectedTo(addr, sid) ==
    [NewConnection(addr) EXCEPT !.stream_id = sid, !.request = 0]

InitFraming ==
    /\ whole \in ValidStreams(MaxRecords) \cup {LiteralStream}
    /\ peer = whole
    /\ reads = 0
    /\ now = StartTime
    /\ master = "E0" /\ new_master = "E0"
    /\ stop = FALSE
    /\ stream_id = "S1"
    /\ wakeup_fds = "open" /\ pipe = 0
    /\ exc_info = None
    /\ ctl = "idle"
    /\ pc = "read"
    /\ conn = ConnectedTo("E0", "S1")
    /\ next_connect_deadline = 0
    /\ readable = {"conn"} /\ writeable = {}
    /\ wake_at = NoTime
    /\ delivered = <<>>
    /\ fault = "none"
    /\ last_teardown = NoTime
    /\ superseded = {} /\ unseen = FALSE
    /\ stop_connecting = FALSE
    /\ began = NoTime /\ calls = 0

\* The readable dispatch of lines 264-271 on the next k bytes of the body: the
\* connection reads them; on False it is torn down, and a read that spins
\* keeps the worker inside Connection.read.
FramingRead(k) ==
    /\ pc = "read" /\ conn # NoConn
    /\ k \in 1..Len(peer)
    /\ \E r \in {ConnRead(conn, BodyInput(SubSeq(peer, 1, k)))} :
           /\ delivered' = delivered \o r.events
           /\ conn' = IF r.ret = "False" THEN NoConn ELSE r.conn
           /\ stream_id' = IF r.ret = "False" THEN None ELSE stream_id
           /\ next_connect_deadline' =
                 IF r.ret = "False" THEN now + CONNECT_RETRY_INTERVAL
                 ELSE next_connect_deadline
           /\ last_teardown' = IF r.ret = "False" THEN now ELSE last_teardown
           /\ pc' = IF r.ret = "spin" THEN "spin" ELSE pc
    /\ peer' = Drop(peer, k)
    /\ reads' = reads + 1
    /\ UNCHANGED <<now, master, new_master, stop, wakeup_fds, pipe, exc_info,
                   ctl, readable, writeable, wake_at, whole, fault, superseded,
                   unseen, stop_connecting, began, calls>>

NextFraming == \E k \in 1..(Len(LiteralStream) + MaxRecords * 14) : FramingRead(k)

SpecFraming == InitFraming /\ [][NextFraming]_vars

\* What one read of the whole stream delivers.
OneRead(st) == ConnRead(ConnectedTo("E0", "S1"), BodyInput(st))

\* ------------------------------------------ malformed frames in the buffer

\* Bytes that begin no record: a non-digit head, a newline with no digit
\* before it, digits followed by a byte that is neither digit nor newline.
JunkTails ==
    {<<"a">>, <<"{", "}">>, <<NL, "1">>, <<"1", "a", "1">>, <<"a", "1", NL, "1">>}

\* Body streams that turn malformed: at most one valid record, then junk.
MalformedStreams ==
    {st \o j : st \in ValidStreams(1), j \in JunkTails}

\* The head of the buffer can never become a match of LENGTH_PATTERN (line
\* 113): after its leading digits stands a byte that is not the newline, or a
\* newline stands at the very head.
Malformed(buf) ==
    /\ LengthMatch(buf) = 0
    /\ DigitRun(buf, 1) < Len(buf)

InitMalformed ==
    /\ whole \in MalformedStreams
    /\ peer = whole
    /\ reads = 0
    /\ now = StartTime
    /\ master = "E0" /\ new_master = "E0"
    /\ stop = FALSE
    /\ stream_id = "S1"
    /\ wakeup_fds = "open" /\ pipe = 0
    /\ exc_info = None
    /\ ctl = "idle"
    /\ pc = "read"
    /\ conn = ConnectedTo("E0", "S1")
    /\ next_connect_deadline = 0
    /\ readable = {"conn"} /\ writeable = {}
    /\ wake_at = NoTime
    /\ delivered = <<>>
    /\ fault = "none"
    /\ last_teardown = NoTime
    /\ superseded = {} /\ unseen = FALSE
    /\ stop_connecting = FALSE
    /\ began = NoTime /\ calls = 0

SpecMalformed == InitMalformed /\ [][NextFraming]_vars

\* C1: framing is boundary-insensitive: however a valid body stream is split
\* into reads, every read returns and, once the whole stream has been read, the
\* events passed to on_event are those one read of the whole stream delivers,
\* in the same order, none lost and none duplicated.
C1_BoundaryInsensitive ==
    whole # LiteralStream =>
        /\ pc # "spin"
        /\ (peer = <<>> => delivered = OneRead(whole).events /\ conn # NoConn)

\* C2 as stated: the body 5\n{"a":1}7\n{"b":22} delivers the two events
\* {"a":1} and {"b":22} in order and the connection is kept.
C2_LiteralStreamTwoEvents ==
    (whole = LiteralStream /\ reads = 1 /\ peer = <<>>) =>
        (delivered = <<EventA, EventB>> /\ conn # NoConn)

\* C2 amended: read in one call, the body 5\n{"a":1}7\n{"b":22} delivers no
\* event and the connection is torn down (the prefix 5 slices {"a": which is
\* no JSON value); the body 7\n{"a":1}8\n{"b":22}, whose prefixes count the
\* payload bytes, delivers {"a":1} then {"b":22} and the connection is kept.
C2_LengthPrefixDecides ==
    /\ (whole = LiteralStream /\ reads = 1 /\ peer = <<>>) =>
           (delivered = <<>> /\ conn = NoConn /\ stream_id = None)
    /\ (whole = CountedStream /\ reads = 1 /\ peer = <<>>) =>
           (delivered = <<EventA, EventB>> /\ conn # NoConn /\ pc = "read")

C2_Witness ==
    whole = LiteralStream /\ reads = 1 /\ peer = <<>> /\ conn = NoConn

\* ------------------------------------------------- properties of the worker

\* C3: backoff is respected: after a teardown at time t no Connection is
\* created before t + CONNECT_RETRY_INTERVAL, whatever wakeups, change_master
\* calls and readiness events come in between.
C3_BackoffRespected ==
    [][(conn = NoConn /\ conn' # NoConn /\ last_teardown # NoTime)
          => now' >= last_teardown + CONNECT_RETRY_INTERVAL]_vars

\* A connection created after the deadline a teardown had armed.
C3_Witness ==
    /\ conn # NoConn /\ began # NoTime
    /\ next_connect_deadline >= StartTime + CONNECT_RETRY_INTERVAL
    /\ began > next_connect_deadline

\* C4: connect timeout: a connection without validated headers never waits in
\* select without a timeout, and an iteration that ends later than
\* CONNECT_TIMEOUT after the attempt began does not leave it alive.
C4_ConnectTimeout ==
    [][/\ (pc' = "blocked" /\ conn' # NoConn /\ conn'.stream_id = None)
            => wake_at' # NoTime
       /\ (pc = "dispatch" /\ pc' = "top" /\ conn' # NoConn /\ conn'.stream_id = None)
            => now' <= began' + CONNECT_TIMEOUT]_vars

\* C5: a superseded endpoint, one that change_master overwrote before the
\* worker evaluated the desired endpoint, never becomes the active endpoint
\* and no Connection to it exists: the active endpoint goes from the old one
\* directly to the last one written.
C5_SupersededNeverConnected ==
    /\ master \notin superseded
    /\ conn # NoConn => conn.addr \notin superseded

\* change_master(E1) was overwritten by change_master(E2) before the worker
\* looked at the desired endpoint; the worker then adopted E2 and connected
\* to it.
C5_Witness ==
    /\ superseded = {"E1"} /\ ~unseen
    /\ master = "E2" /\ conn # NoConn /\ conn.addr = "E2"

\* C6: shutdown while Connecting: once stop() was called on a connection
\* without validated headers, that connection never reaches Connected (no
\* stream id is set), and its socket is closed when the worker has exited.
C6_StopWhileConnecting ==
    stop_connecting =>
        /\ stream_id = None
        /\ conn # NoConn => conn.stream_id = None
        /\ pc = "exited" => conn = NoConn

\* C7: the stream id is empty after every teardown and stays empty until a
\* new connection has validated its headers: a stream id is set only while
\* the connection that validated it is alive.
C7_StreamIdLifecycle ==
    stream_id # None => (conn # NoConn /\ conn.stream_id = stream_id)

\* A connection that had delivered an event was torn down.
C7_Witness ==
    conn = NoConn /\ last_teardown # NoTime /\ delivered # <<>> /\ stream_id = None

\* C8: header rejection: the step in which a connection completes the headers
\* of a response that is not a chunked 200 delivers no event, leaves the
\* stream id empty, and tears the connection down with the backoff armed.
C8_HeaderRejection ==
    [][(fault' \in {"rejected", "rejected_body"} /\ pc = "dispatch")
          => /\ delivered' = delivered
             /\ stream_id' = None
             /\ conn' = NoConn
             /\ next_connect_deadline' = now' + CONNECT_RETRY_INTERVAL]_vars

\* The rejected headers came with body bytes in the same read.
C8_Witness == fault = "rejected_body" /\ conn = NoConn /\ pc = "top"

\* C9: a fault of on_event is unrecoverable: it leaves the loop as an
\* exception, to be recorded with the stop flag set.
C9_HandlerFaultSurfaces == fault = "handler" => pc = "except"

\* C10: a dial failure is absorbed: the worker stays in the loop with the
\* backoff armed, and the failure is never recorded as fatal.
C10_DialFailureAbsorbed ==
    /\ fault = "socket.error" =>
          (pc = "blocked" /\ next_connect_deadline = now + CONNECT_RETRY_INTERVAL)
    /\ exc_info # "socket.error"

\* C11: a malformed record frame is connection-fatal: the loop never keeps a
\* connection whose buffer head can never become a length prefix; the read
\* that leaves such a head reports failure and the connection is torn down.
C11_MalformedFrameFatal ==
    conn # NoConn => ~Malformed(conn.response)

\* C12: shutdown liveness: once stop() has returned, the worker eventually
\* observes the stop flag, leaves the loop and closes the wakeup pipe.
C12_ShutdownLiveness ==
    (stop /\ ctl = "idle") ~> (pc = "exited" /\ wakeup_fds = None)

\* A connection was torn down, the endpoint is set, stop was not requested,
\* and the clock has room for the retry deadline and one more wait to pass.
AwaitingRetry ==
    /\ conn = NoConn /\ last_teardown # NoTime
    /\ master # None /\ new_master # None
    /\ ~stop
    /\ next_connect_deadline + CONNECT_TIMEOUT <= MaxTime

\* C13: reconnect liveness: after a teardown, while the endpoint stays set
\* and stop is not requested, the worker eventually creates a new Connection
\* with no external wakeup.
C13_ReconnectLiveness ==
    AwaitingRetry ~>
        (conn # NoConn \/ new_master = None \/ (stop /\ exc_info = None))

\* C14: stop() and change_master() are safe at any time: _notify never writes
\* to a wakeup descriptor the worker has closed, so no byte is ever put into
\* the pipe once the worker's cleanup has run.
C14_NoWriteAfterClose ==
    wakeup_fds = None => pipe = 0

\* The controller has called change_master or stop after the worker closed
\* the pipe, and the _notify of that call is due.
C14_Witness ==
    pc = "exited" /\ wakeup_fds = None /\ ctl = "notify"

\* C15: record extraction terminates: every call of Connection.read returns;
\* the worker is never inside a read whose extraction loop repeats forever on
\* a length prefix with an incomplete payload.
C15_ExtractionTerminates ==
    pc # "spin"

\* C16: a write failure is absorbed even when the same socket is reported
\* readable: the readable dispatch raises nothing, and no AttributeError is
\* ever recorded as the worker's fatal error.
C16_WriteFailureAbsorbed ==
    fault # "AttributeError" /\ exc_info # "AttributeError"

\* C17: shutdown tears the connection down: when the worker has exited on a
\* stop request made while no connection was waiting for its headers, no
\* connection is left open and the stream id is empty.
C17_ShutdownTearsDown ==
    (pc = "exited" /\ exc_info = None /\ ~stop_connecting) =>
        (conn = NoConn /\ stream_id = None)

\* C18: the worker never holds the state lock while it is blocked on the
\* network: the step that opens a connection, a blocking connect (line 56),
\* or that fails to, is taken with the lock free.
C18_NoNetworkUnderLock ==
    [][(conn = NoConn /\ (conn' # NoConn \/ fault' = "socket.error")) => LockFree]_vars

\* C19: endpoint hand-off: the active endpoint changes only in a step that
\* leaves no connection live, and a live connection's address is always the
\* active endpoint.
C19_EndpointHandOff ==
    [][/\ master' # master => conn' = NoConn
       /\ conn' # NoConn => conn'.addr = master']_vars

\* The worker has closed a live connection to adopt another endpoint.
C19_Witness ==
    fault = "redirect" /\ conn = NoConn /\ master = "E1" /\ pc = "connect"

\* C20: a redirect while no connection is live does not touch the backoff:
\* the step that adopts the changed endpoint leaves next_connect_deadline and
\* the stream id as they are, and the next step of the iteration makes the
\* attempt whenever the deadline has passed.
C20_RedirectKeepsBackoff ==
    [][/\ (pc = "top" /\ pc' = "connect" /\ new_master # master /\ conn = NoConn)
            => /\ master' = new_master
               /\ next_connect_deadline' = next_connect_deadline
               /\ stream_id' = stream_id
       /\ (pc = "connect" /\ pc' # pc /\ conn = NoConn /\ master # None
              /\ now > next_connect_deadline)
            => (conn' # NoConn \/ fault' = "socket.error")]_vars

\* E1 was adopted before any connection existed and no deadline is pending:
\* the attempt to E1 is due in this iteration.
C20_Witness ==
    /\ pc = "connect" /\ conn = NoConn /\ last_teardown = NoTime
    /\ master = "E1" /\ next_connect_deadline = 0

====
